---- MODULE Spec2Model ----
(***************************************************************************)
(* Model of the driver / atomic-transaction layer of hextacy (alchemy).    *)
(*                                                                         *)
(* The backend primitives are the three methods of the `Atomic` trait and  *)
(* `RepositoryAccess::connect` (hextacy/src/db.rs).  Every one of them     *)
(* takes its argument by value, so a connection handed to                  *)
(* start_transaction and a handle handed to commit_transaction or          *)
(* abort_transaction is gone afterwards whatever the call returns.         *)
(*                                                                         *)
(* The coordinator that sequences these calls (the expansion of `atomic!`, *)
(* `AcidRepositoryAccess`) is not part of the sources at hand; its steps   *)
(* follow section 4.2 of the specification.                                *)
(***************************************************************************)
EXTENDS Integers, Sequences, FiniteSets, TLC

\* ------------------------------------------------------------------ bounds

NumBackends == 2
PoolMax == 1

\* Two service requests run their scopes concurrently.
Scopes == {1, 2}
Backends == 1..NumBackends

\* The rate limiter: the connections of the redis pool, the contract calls made
\* in all, and the ticks of the clock.
RedisPoolMax == 2
MaxCalls == 3
MaxTime == 1

\* The cache service: the Cache::set and Cache::delete calls made in all.
MaxStoreOps == 2

\* Three requests call the cache contract concurrently, for one user.
Callers == {1, 2, 3}
Users == {"u1"}

\* ------------------------------------------------------------ vocabulary

DeclaredOrderReversed == [b \in Backends |-> NumBackends + 1 - b]

\* acid_repo! { Pg => PgConnection : postgres, tx_pg, Mg => MgConnection : mongo, tx_mg; .. }
\* declares the backends of a repository in a fixed order: 1 (postgres), 2 (mongo), ...
DeclaredOrder == [b \in Backends |-> b]

\* Odd backends are connection-rooted (diesel/postgres: the transaction is the
\* connection), even ones session-rooted (mongo: a ClientSession tied to a client).
Kind(b) == IF b % 2 = 1 THEN "connection" ELSE "session"

\* Outcome of one awaited round-trip: Ok, Err(DatabaseError), or the caller's
\* timeout expiring first.
Outcomes == {"ok", "err", "timeout"}

HandleStates ==
    {"none", "conn", "open", "committed", "commit_failed", "aborted", "abort_failed"}

Results ==
    {"none", "ok", "body_err", "cancelled", "conn_err", "pool_exhausted",
     "start_err", "commit_err", "timeout"}

\* The scope types: the backends a scope declares, in the declared order.
RECURSIVE SubSeqs(_)
SubSeqs(n) ==
    IF n = 0 THEN {<< >>}
    ELSE LET prev == SubSeqs(n - 1)
         IN  prev \cup {Append(q, DeclaredOrder[n]) : q \in prev}

ScopeTypes == SubSeqs(NumBackends)

Range(q) == {q[j] : j \in 1..Len(q)}

Reverse(q) == [j \in 1..Len(q) |-> q[Len(q) + 1 - j]]

IsPrefix(p, q) == Len(p) <= Len(q) /\ \A j \in 1..Len(p) : p[j] = q[j]

Count(q, x) == Cardinality({j \in 1..Len(q) : q[j] = x})

SetMax(S) == CHOOSE x \in S : \A y \in S : y <= x
SetMin(S) == CHOOSE x \in S : \A y \in S : x <= y

\* ------------------------------------------------------------------ state

VARIABLES
    pc,          \* [scope -> step of the coordinator]
    decl,        \* [scope -> the backends it declared, in order]
    idx,         \* [scope -> position in decl of the backend being connected/started]
    handle,      \* [scope -> [backend -> HandleStates]]
    written,     \* [scope -> backends the body wrote to through its handle]
    bodyOut,     \* [scope -> how the operation body ended, "none" if never invoked]
    result,      \* [scope -> what the caller receives]
    abortLog,    \* [scope -> backends whose abort failure was logged]
    failures,    \* [scope -> <<call, backend, outcome>> of every round-trip that failed]
    startOrder,  \* [scope -> backends in the order start_transaction was called]
    openOrder,   \* [scope -> backends in the order start_transaction succeeded]
    commitOrder, \* [scope -> backends in the order commit_transaction was called]
    abortOrder,  \* [scope -> backends in the order abort_transaction was called]
    checkedOut,  \* [backend -> connections currently out of the pool]
    lent,        \* [backend -> the connections of its pool that are out]
    via,         \* [scope -> [backend -> the connection each call of the scope ran on]]
    store        \* [backend -> scopes whose writes are durably visible]

cvars == <<pc, decl, idx, handle, written, bodyOut, result, abortLog, failures,
           startOrder, openOrder, commitOrder, abortOrder, checkedOut, lent, via,
           store>>

\* The cache-backed rate limiter (server/src/api/router/auth/adapter.rs).
VARIABLES
    cache,       \* [key -> entry]: what the redis server holds
    now,         \* the clock, in ticks
    redisOut,    \* connections currently out of the redis pool
    calls,       \* contract calls made so far
    cpc,         \* [caller -> the round-trip its call makes next, "idle" between calls]
    method,      \* [caller -> the contract method it is in]
    user,        \* [caller -> the user_id the call was given]
    seen,        \* [caller -> what its read or increment really met: hit, miss or error]
    attempts,    \* [caller -> the count its read returned]
    returned,    \* the call that returned last: method, user_id, value
    hist         \* [user -> what has happened to the user's keys, for the record]

lvars == <<cache, now, redisOut, calls, cpc, method, user, seen, attempts, returned,
           hist>>

\* The cache service (app/src/services/cache.rs): what the server holds under
\* each key string, and the calls made on it.
VARIABLES
    kv,          \* [key string -> what the redis server holds under it]
    clock,       \* the clock of the server, in ticks
    ops,         \* Cache::set and Cache::delete calls made so far
    got,         \* the last Cache::get: its arguments, the round-trip and its result
    lastSet      \* [<<cache_id, key>> -> what the last Cache::set on it stored]

svars == <<kv, clock, ops, got, lastSet>>

\* The session repository (storage/src/adapters/postgres/session.rs).
VARIABLES
    sessions,    \* [session id -> "absent", or how its expires_at stands to now]
    repoOut,     \* the last call on one session: method, id, the query's outcome, result
    purged       \* the last purge, while only reads came after it: user_id, skip,
                 \* the query's outcome, result

rvars == <<sessions, repoOut, purged>>

\* The OAuth repository (examples/server/src/db/adapters/postgres/diesel/oauth.rs).
VARIABLES
    oauth,       \* [entry id -> the row of the oauth table, absent before its create]
    oauthOut     \* the last repository call: method, argument, query outcome, result

ovars == <<oauth, oauthOut>>

vars == <<cvars, lvars, svars, rvars, ovars>>

\* What each part of the program leaves alone.
offCoordinator == <<lvars, svars, rvars, ovars>>
offLimiter == <<cvars, svars, rvars, ovars>>
offService == <<cvars, lvars, rvars, ovars>>
offRepository == <<cvars, lvars, svars, ovars>>
offOAuth == <<cvars, lvars, svars, rvars>>

\* ------------------------------------------------- the cache and its commands

\* WRONG_PASSWORD_CACHE_DURATION and OTP_THROTTLE_DURATION (config::constants),
\* in ticks of the clock.
WRONG_PASSWORD_CACHE_DURATION == 2
OTP_THROTTLE_DURATION == 2

\* AuthCache::LoginAttempts, AuthCache::OTPAttempts, AuthCache::OTPThrottle.
Categories == {"login_attempts", "otp_attempts", "otp_throttle"}

\* Self::construct_key(AuthCache::X, user_id): one key for each category and user.
construct_key(category, user_id) == <<category, user_id>>

Keys == {construct_key(c, u) : c \in Categories, u \in Users}

\* A key the server does not hold, and one it holds, with or without an expiry.
Absent == [present |-> FALSE, val |-> 0, expires |-> FALSE, exp |-> 0]

Entry(v, expires, exp) == [present |-> TRUE, val |-> v, expires |-> expires, exp |-> exp]

\* Outcome of one round-trip to the cache: the command ran and its reply arrived,
\* or the cache was unreachable and nothing ran.
RedisOutcomes == {"ok", "err"}

\* connection.incr(&key, 1), the INCR command: a key the server does not hold
\* counts from 0 and is created without an expiry; an expiry set earlier stays.
incr(c, key, by, t) ==
    [c EXCEPT ![key] =
        IF @.present THEN Entry(@.val + by, @.expires, @.exp)
        ELSE Entry(by, FALSE, 0)]

\* connection.set_ex(key, value, seconds), the SETEX command: the value replaces
\* what was there and the key expires `seconds` from now.
set_ex(c, key, v, seconds, t) == [c EXCEPT ![key] = Entry(v, TRUE, t + seconds)]

DelKeepsKey(c, key) == c

\* connection.del(key), the DEL command.
del(c, key) == [c EXCEPT ![key] = Absent]

\* The keys whose expiry has come are gone from the server.
Expire(c, t) ==
    [k \in Keys |-> IF c[k].present /\ c[k].expires /\ c[k].exp <= t THEN Absent ELSE c[k]]

\* What the caller's match sees of connection.get::<&str, i64> or
\* connection.incr::<&str, u8, u8>: Ok(n), or Err(_) for an error reply, an
\* unreachable cache and (get only) a key that is not there.
SeenOnRead(c, key, outcome) ==
    IF outcome # "ok" THEN "error" ELSE IF c[key].present THEN "hit" ELSE "miss"

\* u8::MAX
U8Max == 255

\* The reply of INCR read as u8.
AsU8(n) == n % (U8Max + 1)

\* incr::<&str, u8, u8>: what the match sees of the reply n of an INCR that was
\* carried out.  A count that fits is Ok(n); one above u8::MAX is, by the client
\* library's conversion, either cut to its low eight bits or a type error.
U8Reply(n) == IF n <= U8Max THEN {[tag |-> "ok", val |-> n]}
              ELSE {[tag |-> "ok", val |-> AsU8(n)], [tag |-> "err", val |-> 0]}

\* A call's return value: Ok(n) or Err(e); "none" before the first return.
NoReturn == [tag |-> "none", val |-> 0]
Ok(n) == [tag |-> "ok", val |-> n]
Err == [tag |-> "err", val |-> 0]

DelReplyErrOnAbsent(c, key) == IF c[key].present THEN Ok(0) ELSE Err

\* conn.del::<String, ()>(key): the reply of DEL, the number of keys removed, is
\* read as (), so the call is Ok(()) whether or not the key was there.
DelReply(c, key) == Ok(0)

\* What set_ex::<_, _, u8> or set_ex::<_, _, i64> returns for the value 1 it
\* stored: the reply of SETEX as the client library converts it to a number.
SetExReply == {Ok(1), Err}

DropLeaks(n) == n

\* The connection of a call is a local of the method: it goes back to the pool
\* when the method returns, by whichever return.
Drop(n) == n - 1

\* The record kept of a user's keys.  For the login-attempts key, since it was
\* last absent: loginOk, the cache_login_attempt calls that returned Ok, and
\* loginClean, whether it was written by INCR alone, never by the set_ex of the
\* Err arm.  For the latest run of
\* overlapping cache_otp_throttle calls: otpBase, the attempt count when the first
\* of them entered, otpCalls, how many entered, and otpClean, whether all their
\* round-trips got through and the count did not expire meanwhile.  loginDel:
\* "deleted" once delete_login_attempts has returned Ok, "deleted_again" once it
\* has returned Ok again with no attempt recorded in between, "restarted" once
\* an attempt has written the key after that.
NoHistory ==
    [loginOk |-> 0, loginClean |-> TRUE, otpBase |-> 0, otpCalls |-> 0, otpClean |-> TRUE,
     loginDel |-> "no"]

Deleted == {"deleted", "deleted_again"}

Restarted(d) == IF d \in Deleted THEN "restarted" ELSE d

CountOf(c, key) == IF c[key].present THEN c[key].val ELSE 0

\* The limiter once n attempts on the login-attempts key of "u1" have been
\* counted by INCR and no other call was made: before its first call when n = 0.
LimiterInitAfter(n) ==
    /\ cache = [k \in Keys |->
                  IF n > 0 /\ k = construct_key("login_attempts", "u1")
                  THEN Entry(n, FALSE, 0) ELSE Absent]
    /\ now = 0
    /\ redisOut = 0
    /\ calls = 0
    /\ cpc = [p \in Callers |-> "idle"]
    /\ method = [p \in Callers |-> "none"]
    /\ user = [p \in Callers |-> "u1"]
    /\ seen = [p \in Callers |-> "none"]
    /\ attempts = [p \in Callers |-> 0]
    /\ returned = [method |-> "none", user |-> "u1", value |-> NoReturn]
    /\ hist = [u \in Users |-> [NoHistory EXCEPT !.loginOk = n]]

\* The limiter before its first call.
LimiterInit == LimiterInitAfter(0)

\* ------------------------------------------------- the cache service

\* enum CacheId
CacheIds == {"LoginAttempts", "Session", "OTPToken", "RegToken", "PWToken"}

fmtNested(cache_id) ==
    CASE cache_id = "LoginAttempts" -> "auth:login_attempts"
      [] cache_id = "OTPToken" -> "auth:session:otp"
      [] cache_id = "Session" -> "auth:session"
      [] cache_id = "RegToken" -> "auth:registration_token"
      [] cache_id = "PWToken" -> "auth:set_pw"

\* impl Display for CacheId { fn fmt(..) }
fmt(cache_id) ==
    CASE cache_id = "LoginAttempts" -> "auth:login_attempts"
      [] cache_id = "OTPToken" -> "auth:otp"
      [] cache_id = "Session" -> "auth:session"
      [] cache_id = "RegToken" -> "auth:registration_token"
      [] cache_id = "PWToken" -> "auth:set_pw"

\* Cache::prefix_id: format!("{}:{}", cache_id, key)
prefix_id(cache_id, key) == fmt(cache_id) \o ":" \o key

\* Identity strings a caller may pass as the key: plain ones, ones holding the
\* ':' separator, ones that read like the tail of a category name.
Identities ==
    {"", "u1", "u2", ":", ":u1", "u1:", "u1:u2", "otp", "otp:u1", "session:u1",
     "auth:otp:u1", "login_attempts:u1"}

\* The categories and keys the calls of the model are made with.
StorePairs == {<<"Session", "u1">>, <<"Session", "otp:u1">>, <<"OTPToken", "u1">>}
StoreKeys == {prefix_id(p[1], p[2]) : p \in StorePairs}

\* The values written: T is the type parameter of Cache::set / Cache::get.
JsonInt(n) == [T |-> "i64", n |-> n, s |-> ""]
JsonStr(s) == [T |-> "String", n |-> 0, s |-> s]
NoJson == [T |-> "none", n |-> 0, s |-> ""]
JsonTypes == {"i64", "String"}
JsonValues == {JsonInt(1), JsonStr("1")}

Digits == <<"0", "1", "2", "3", "4", "5", "6", "7", "8", "9">>

to_stringUnquoted(val) == IF val.T = "i64" THEN Digits[val.n + 1] ELSE val.s

\* serde_json::to_string(&val): a number as its digits, a string between quotes
\* (the strings written hold nothing that needs escaping).
to_string(val) ==
    IF val.T = "i64" THEN Digits[val.n + 1] ELSE "\"" \o val.s \o "\""

\* The result of Cache::get: Ok(value), CacheError::Redis or CacheError::Serde.
GetOk(val) == [tag |-> "ok", val |-> val]
RedisError == [tag |-> "redis", val |-> NoJson]
SerdeError == [tag |-> "serde", val |-> NoJson]

\* serde_json::from_str::<T>(&result): the value of type T the text is the JSON
\* of, or a serde error when it is the JSON of no value of that type.
from_str(T, text) ==
    IF T = "i64"
    THEN IF \E n \in 0..9 : Digits[n + 1] = text
         THEN GetOk(JsonInt(CHOOSE n \in 0..9 : Digits[n + 1] = text))
         ELSE SerdeError
    ELSE IF \E v \in JsonValues : "\"" \o v.s \o "\"" = text
         THEN GetOk(JsonStr((CHOOSE v \in JsonValues : "\"" \o v.s \o "\"" = text).s))
         ELSE SerdeError

\* ex: Option<usize>
None == [some |-> FALSE, secs |-> 0]
Some(n) == [some |-> TRUE, secs |-> n]
ExChoices == {None, Some(1), Some(2)}

\* What the server holds under a key string.
NotHeld == [present |-> FALSE, text |-> "", expires |-> FALSE, exp |-> 0]
Held(text, expires, exp) == [present |-> TRUE, text |-> text, expires |-> expires, exp |-> exp]

\* conn.set_ex::<&str, String, ()>(&key, value, ex) and conn.set(&key, value):
\* SETEX stores the text with an expiry, SET stores it with none.
conn_set_ex(c, key, text, secs, t) == [c EXCEPT ![key] = Held(text, TRUE, t + secs)]
conn_set(c, key, text) == [c EXCEPT ![key] = Held(text, FALSE, 0)]

\* conn.del::<String, ()>(key)
conn_del(c, key) == [c EXCEPT ![key] = NotHeld]

\* conn.get::<&str, String>(&key)? then serde_json::from_str::<T>: a key the
\* server does not hold answers nil, which is no String: CacheError::Redis.
conn_get(c, key, T) == IF ~c[key].present THEN RedisError ELSE from_str(T, c[key].text)

\* The server drops the keys whose expiry has come.
StoreExpire(c, t) ==
    [k \in DOMAIN c |-> IF c[k].present /\ c[k].expires /\ c[k].exp <= t THEN NotHeld ELSE c[k]]

\* What the last Cache::set on a (cache_id, key) stored, if it is still to be
\* found: the value, and the tick its expiry falls on when it has one.
NeverSet == [set |-> FALSE, val |-> NoJson, ttl |-> FALSE, deadline |-> 0]
WasSet(val, ex, t) == [set |-> TRUE, val |-> val, ttl |-> ex.some, deadline |-> t + ex.secs]

NoGet == [cache_id |-> "none", key |-> "", T |-> "none", outcome |-> "none", result |-> RedisError]

ServiceInit ==
    /\ kv = [k \in StoreKeys |-> NotHeld]
    /\ clock = 0
    /\ ops = 0
    /\ got = NoGet
    /\ lastSet = [p \in StorePairs |-> NeverSet]

\* ------------------------------------------------- the session repository

\* The ids of the rows of the sessions table.
SessionIds == {"s1", "s2", "s3"}

\* sessions.user_id: two sessions of one user and one of another.
SessionUsers == {"u1", "u2"}
user_id(id) == IF id = "s3" THEN "u2" ELSE "u1"

\* expires_at against Utc::now(): later ("valid"), the same instant
\* ("expiring"), earlier ("expired").
Expiries == {"valid", "expiring", "expired"}

gtIncludesNow(expires_at) == expires_at \in {"valid", "expiring"}

\* dsl::expires_at.gt(Utc::now())
gt(expires_at) == expires_at = "valid"

\* dsl::expires_at.ge(Utc::now())
ge(expires_at) == expires_at \in {"valid", "expiring"}

\* skip: Option<&str>
NoSkip == "none"
SkipChoices == {NoSkip} \cup SessionIds

\* diesel::result::Error: NotFound, which `first` gives for an empty result, and
\* the errors a query fails with.
DieselErrors == {"NotFound", "DatabaseError", "SerializationError"}
QueryErrors == DieselErrors \ {"NotFound"}
QueryOutcomes == {"ok"} \cup QueryErrors

\* Result<Session, AdapterError>
AdapterOk(row) == [tag |-> "ok", row |-> row, e |-> "none"]
DoesNotExist == [tag |-> "DoesNotExist", row |-> "none", e |-> "none"]
Diesel(e) == [tag |-> "Diesel", row |-> "none", e |-> e]
NoResult == [tag |-> "none", row |-> "none", e |-> "none"]

FromKeepsNotFound(value) == Diesel(value)

\* impl From<diesel::result::Error> for AdapterError
From(value) == IF value = "NotFound" THEN DoesNotExist ELSE Diesel(value)

\* .first::<Session>(conn).map_err(AdapterError::from): the first row of the
\* result, diesel's NotFound when there is none.
first_row(rows) ==
    IF rows = {} THEN From("NotFound") ELSE AdapterOk(CHOOSE r \in rows : TRUE)

\* .load::<Session>(conn)?.pop().ok_or_else(|| AdapterError::DoesNotExist)
pop_or_else(rows) ==
    IF rows = {} THEN DoesNotExist ELSE AdapterOk(CHOOSE r \in rows : TRUE)

\* The rows a call's filters select: get_valid_by_id takes the id, the csrf and
\* expires_at > now; refresh the id and the csrf; expire the id.
Matching(t, m, id, csrf_ok) ==
    CASE m = "get_valid_by_id" -> IF gt(t[id]) /\ csrf_ok THEN {id} ELSE {}
      [] m = "refresh" -> IF t[id] # "absent" /\ csrf_ok THEN {id} ELSE {}
      [] m = "expire" -> IF t[id] # "absent" THEN {id} ELSE {}
      [] OTHER -> {}

\* The rows purge updates: those of the user that have not expired, without the
\* one to skip when one is given.
PurgeRows(t, usr_id, skip) ==
    {i \in SessionIds : /\ t[i] # "absent" /\ user_id(i) = usr_id /\ ge(t[i])
                        /\ skip # NoSkip => i # skip}

\* Result<Vec<Session>, AdapterError>
ManyOk(rows) == [tag |-> "ok", rows |-> rows, e |-> "none"]
ManyErr(e) == [tag |-> From(e).tag, rows |-> {}, e |-> From(e).e]

NoPurge == [user_id |-> "none", skip |-> NoSkip, query |-> "none",
            result |-> [tag |-> "none", rows |-> {}, e |-> "none"]]

NoCall == [method |-> "none", id |-> "s1", csrf_ok |-> TRUE, query |-> "none",
           result |-> NoResult]

RepositoryInit ==
    /\ sessions = [i \in SessionIds |-> "absent"]
    /\ repoOut = NoCall
    /\ purged = NoPurge

\* ---------------------------------------------------- the oauth repository

\* The ids of the rows of the oauth table, the entries of user "u1", each with
\* the provider, the provider account and the access token it was created for.
OAuthIds == {"o1", "o2"}
account_id(id) == IF id = "o1" THEN "a1" ELSE "a2"
provider(id) == IF id = "o1" THEN "Github" ELSE "Google"
access_token(id) == IF id = "o1" THEN "t1" ELSE "t2"
AccountIds == {account_id(id) : id \in OAuthIds}
OAuthProviders == {provider(id) : id \in OAuthIds}
AccessTokens == {access_token(id) : id \in OAuthIds}

\* expires_at: Option<NaiveDateTime>, a nullable column.
Null == "null"

NoEntry == [present |-> FALSE, revoked |-> FALSE, expires_at |-> Null]
OAuthMeta(revoked, expires_at) ==
    [present |-> TRUE, revoked |-> revoked, expires_at |-> expires_at]

\* tokens.expires_in().map(|val| (Utc::now() + Duration::seconds(val)).naive_utc())
expires_in(ex) == IF ex.some THEN "valid" ELSE Null

sql_gtNullIsTrue(expires_at) ==
    IF expires_at = Null THEN "true" ELSE IF gt(expires_at) THEN "true" ELSE "false"

\* dsl::expires_at.gt(Utc::now()) on the nullable column: a comparison with NULL
\* is NULL, neither true nor false.
sql_gt(expires_at) ==
    IF expires_at = Null THEN Null ELSE IF gt(expires_at) THEN "true" ELSE "false"

\* .filter(...): the rows on which every predicate is true.
Unrevoked(t) ==
    {i \in OAuthIds : t[i].present /\ ~t[i].revoked /\ sql_gt(t[i].expires_at) = "true"}

\* The rows each method's filters select.
OAuthMatching(t, m, arg) ==
    CASE m = "get_by_id" -> {i \in Unrevoked(t) : i = arg}
      [] m = "get_by_account_id" -> {i \in Unrevoked(t) : account_id(i) = arg}
      [] m = "get_by_provider" -> {i \in Unrevoked(t) : provider(i) = arg}
      [] m = "revoke" -> {i \in OAuthIds : t[i].present /\ access_token(i) = arg}
      [] m = "update" -> {i \in OAuthIds : t[i].present /\ provider(i) = arg}
      [] m = "get_by_user_id" -> Unrevoked(t)
      [] m = "revoke_all" -> {i \in OAuthIds : t[i].present}
      [] OTHER -> {}

NoOAuthCall ==
    [method |-> "none", arg |-> "none", query |-> "none", result |-> NoResult, rows |-> {}]

OAuthInit ==
    /\ oauth = [i \in OAuthIds |-> NoEntry]
    /\ oauthOut = NoOAuthCall

\* ------------------------------------------------- the backend primitives
\* Each gives the state of the value it was handed once the call has returned.

\* RepositoryAccess::connect(&self) -> Result<C, DatabaseError>
connect(outcome) == IF outcome = "ok" THEN "conn" ELSE "none"

StartKeepsConnection(outcome) == IF outcome = "ok" THEN "open" ELSE "conn"

\* Atomic::start_transaction(self) -> Result<TransactionResult, DatabaseError>:
\* the connection is moved in; on failure nothing comes back.
start_transaction(outcome) == IF outcome = "ok" THEN "open" ELSE "none"

CommitSwallowsError(outcome) == "committed"

CommitKeepsHandle(outcome) == IF outcome = "ok" THEN "committed" ELSE "open"

\* Atomic::commit_transaction(tx) -> Result<(), DatabaseError>: tx is moved in.
commit_transaction(outcome) == IF outcome = "ok" THEN "committed" ELSE "commit_failed"

AbortCommits(outcome) == IF outcome = "ok" THEN "committed" ELSE "abort_failed"

AbortSwallowsError(outcome) == "aborted"

AbortKeepsHandle(outcome) == IF outcome = "ok" THEN "aborted" ELSE "open"

AbortLeavesConnection(outcome) == IF outcome = "ok" THEN "aborted" ELSE "conn"

\* Atomic::abort_transaction(tx) -> Result<(), DatabaseError>: tx is moved in.
abort_transaction(outcome) == IF outcome = "ok" THEN "aborted" ELSE "abort_failed"

PoolTimeoutAsConnectionError(outcome, exhausted) ==
    IF outcome = "timeout" /\ ~exhausted THEN "timeout" ELSE "conn_err"

\* DatabaseError / DriverError kinds the caller can tell apart.
ConnectError(outcome, exhausted) ==
    IF outcome = "timeout" THEN IF exhausted THEN "pool_exhausted" ELSE "timeout"
    ELSE "conn_err"

LifecycleErrorAsConnection(kind, outcome) == "conn_err"

LifecycleError(kind, outcome) == IF outcome = "timeout" THEN "timeout" ELSE kind

\* What the round-trip log gains from one call.
Logged(call, b, outcome) == IF outcome = "ok" THEN {} ELSE {<<call, b, outcome>>}

\* The connections of one pool.
ConnIds == 1..PoolMax

\* The connection connect hands out, one that is in the pool.  The connections
\* of a pool are interchangeable: scope s is handed connection s when the pool
\* is that large and the connection is idle, an idle one otherwise.
Idle(out, s) ==
    LET usual == ((s - 1) % PoolMax) + 1
    IN IF usual \notin out THEN usual ELSE SetMin(ConnIds \ out)

\* No call of the scope has run on a connection of the backend yet.
NoConnection == [conn |-> 0, tx |-> 0, body |-> 0, end |-> 0]

TransactionResultIsNewConnection(kind, c) == IF kind = "connection" THEN 0 ELSE c

\* Atomic::TransactionResult, the connection the handle runs on: connection
\* based, it is the connection start_transaction was called on; struct based,
\* it is the session obtained from that connection and tied to it.
TransactionResult(kind, c) == c

ReleasedAtSessionStart(call, kind, r) ==
    IF call = "start" THEN r # "open" \/ kind = "session" ELSE TRUE

\* Whether the connection goes back to the pool when the call returns with the
\* handle in state r: start_transaction takes the connection by value and keeps
\* it in the TransactionResult; commit_transaction and abort_transaction take
\* the TransactionResult by value and drop it.
ReleasedBy(call, kind, r) == IF call = "start" THEN r # "open" ELSE TRUE

\* ------------------------------------------------------- shared vocabulary

Done(s) == pc[s] = "done"

Opened(s) == Range(openOrder[s])

Failed(s, call) == {f[2] : f \in {g \in failures[s] : g[1] = call}}

TimedOut(s, call) == {f[2] : f \in {g \in failures[s] : g[1] = call /\ g[3] = "timeout"}}

\* ---------------------------------------------------------- the coordinator

OpenIdx(s) == {j \in 1..Len(decl[s]) : handle[s][decl[s][j]] = "open"}

CommitInReverseOrder(s) == SetMax(OpenIdx(s))

\* Step 3: commit in the order opened.
NextCommit(s) == SetMin(OpenIdx(s))

\* Step 4: abort in reverse order of opening.
NextAbort(s) == SetMax(OpenIdx(s))

AfterFailureReturnsAtOnce(h, d) == "done"

\* Where the coordinator goes once an error was raised: clean up what is open.
AfterFailure(h, d) ==
    IF \E j \in 1..Len(d) : h[d[j]] = "open" THEN "abort" ELSE "done"

EntryStepSkipsBody(d) == IF Len(d) = 0 THEN "done" ELSE "connect"

\* Step 1 has nothing to open for a scope that declares no backend: the body runs
\* at once.
EntryStep(d) == IF Len(d) = 0 THEN "body" ELSE "connect"

CoordinatorInit ==
    /\ pc = [s \in Scopes |-> "idle"]
    /\ decl = [s \in Scopes |-> << >>]
    /\ idx = [s \in Scopes |-> 0]
    /\ handle = [s \in Scopes |-> [b \in Backends |-> "none"]]
    /\ written = [s \in Scopes |-> {}]
    /\ bodyOut = [s \in Scopes |-> "none"]
    /\ result = [s \in Scopes |-> "none"]
    /\ abortLog = [s \in Scopes |-> {}]
    /\ failures = [s \in Scopes |-> {}]
    /\ startOrder = [s \in Scopes |-> << >>]
    /\ openOrder = [s \in Scopes |-> << >>]
    /\ commitOrder = [s \in Scopes |-> << >>]
    /\ abortOrder = [s \in Scopes |-> << >>]
    /\ checkedOut = [b \in Backends |-> 0]
    /\ lent = [b \in Backends |-> {}]
    /\ via = [s \in Scopes |-> [b \in Backends |-> NoConnection]]
    /\ store = [b \in Backends |-> {}]

Init == CoordinatorInit /\ LimiterInit /\ ServiceInit /\ RepositoryInit /\ OAuthInit

\* A service method enters an Atomic Scope over the backends of its type.
Begin(s) ==
    /\ pc[s] = "idle"
    /\ \E d \in ScopeTypes :
         /\ decl' = [decl EXCEPT ![s] = d]
         /\ pc' = [pc EXCEPT ![s] = EntryStep(d)]
         /\ idx' = [idx EXCEPT ![s] = IF Len(d) = 0 THEN 0 ELSE 1]
    /\ UNCHANGED <<handle, written, bodyOut, result, abortLog, failures, startOrder,
                   openOrder, commitOrder, abortOrder, checkedOut, lent, via, store>>
    /\ UNCHANGED offCoordinator

\* Step 1a: obtain a connection for the next declared backend via its Driver.
\* With the pool exhausted the call waits; it returns once a connection is
\* handed back, or fails when its wait is over.
Connect(s) ==
    /\ pc[s] = "connect"
    /\ LET b == decl[s][idx[s]]
           exhausted == checkedOut[b] >= PoolMax
       IN \E outcome \in Outcomes :
            /\ (outcome = "ok") => ~exhausted
            /\ LET r == connect(outcome)
                   h == [handle[s] EXCEPT ![b] = r]
               IN /\ handle' = [handle EXCEPT ![s] = h]
                  /\ failures' = [failures EXCEPT ![s] = @ \cup Logged("connect", b, outcome)]
                  /\ IF r = "conn"
                     THEN /\ checkedOut' = [checkedOut EXCEPT ![b] = @ + 1]
                          /\ lent' = [lent EXCEPT ![b] = @ \cup {Idle(lent[b], s)}]
                          /\ via' = [via EXCEPT ![s][b].conn = Idle(lent[b], s)]
                          /\ pc' = [pc EXCEPT ![s] = "start"]
                          /\ UNCHANGED result
                     ELSE /\ pc' = [pc EXCEPT ![s] = AfterFailure(h, decl[s])]
                          /\ result' = [result EXCEPT ![s] = ConnectError(outcome, exhausted)]
                          /\ UNCHANGED <<checkedOut, lent, via>>
    /\ UNCHANGED <<decl, idx, written, bodyOut, abortLog, startOrder,
                   openOrder, commitOrder, abortOrder, store>>
    /\ UNCHANGED offCoordinator

\* Step 1b: start a transaction on the connection just obtained.
Start(s) ==
    /\ pc[s] = "start"
    /\ LET b == decl[s][idx[s]]
       IN \E outcome \in Outcomes :
            LET r == start_transaction(outcome)
                h == [handle[s] EXCEPT ![b] = r]
            IN /\ handle' = [handle EXCEPT ![s] = h]
               /\ failures' = [failures EXCEPT ![s] = @ \cup Logged("start", b, outcome)]
               /\ startOrder' = [startOrder EXCEPT ![s] = Append(@, b)]
               /\ via' = [via EXCEPT ![s][b].tx = via[s][b].conn]
               /\ IF ReleasedBy("start", Kind(b), r)
                  THEN \* the connection moved into the call is dropped: back to the pool
                       /\ checkedOut' = [checkedOut EXCEPT ![b] = @ - 1]
                       /\ lent' = [lent EXCEPT ![b] = @ \ {via[s][b].conn}]
                  ELSE UNCHANGED <<checkedOut, lent>>
               /\ IF r = "open"
                  THEN /\ openOrder' = [openOrder EXCEPT ![s] = Append(@, b)]
                       /\ pc' = [pc EXCEPT ![s] =
                             IF idx[s] < Len(decl[s]) THEN "connect" ELSE "body"]
                       /\ idx' = [idx EXCEPT ![s] =
                             IF idx[s] < Len(decl[s]) THEN @ + 1 ELSE @]
                       /\ UNCHANGED result
                  ELSE /\ pc' = [pc EXCEPT ![s] = AfterFailure(h, decl[s])]
                       /\ result' = [result EXCEPT ![s] = LifecycleError("start_err", outcome)]
                       /\ UNCHANGED <<openOrder, idx>>
    /\ UNCHANGED <<decl, written, bodyOut, abortLog, commitOrder, abortOrder, store>>
    /\ UNCHANGED offCoordinator

\* Step 2: the operation body runs on the transactional handles.  It has made
\* its repository calls on every handle by the time it returns, fails or is cut
\* short: the case in which a commit has the most to publish and an abort the
\* most to undo.
Body(s) ==
    /\ pc[s] = "body"
    /\ \E out \in {"ok", "body_err", "cancelled"} :
         /\ written' = [written EXCEPT ![s] = Opened(s)]
         /\ via' = [via EXCEPT ![s] = [b \in Backends |->
               IF b \in Opened(s)
               THEN [via[s][b] EXCEPT !.body = TransactionResult(Kind(b), via[s][b].tx)]
               ELSE via[s][b]]]
         /\ bodyOut' = [bodyOut EXCEPT ![s] = out]
         /\ IF out = "ok"
            THEN /\ pc' = [pc EXCEPT ![s] = IF OpenIdx(s) = {} THEN "done" ELSE "commit"]
                 /\ result' = [result EXCEPT ![s] = IF OpenIdx(s) = {} THEN "ok" ELSE @]
            ELSE /\ pc' = [pc EXCEPT ![s] = AfterFailure(handle[s], decl[s])]
                 /\ result' = [result EXCEPT ![s] = out]
    /\ UNCHANGED <<decl, idx, handle, abortLog, failures, startOrder,
                   openOrder, commitOrder, abortOrder, checkedOut, lent, store>>
    /\ UNCHANGED offCoordinator

\* Step 3: commit the next handle.  A commit whose reply is lost (error or
\* timeout) may or may not have taken effect on the backend.
Commit(s) ==
    /\ pc[s] = "commit"
    /\ LET j == NextCommit(s)
           b == decl[s][j]
       IN \E outcome \in Outcomes, applied \in BOOLEAN :
            /\ (outcome = "ok") => applied
            /\ LET r == commit_transaction(outcome)
                   h == [handle[s] EXCEPT ![b] = r]
                   more == \E i \in 1..Len(decl[s]) : h[decl[s][i]] = "open"
               IN /\ handle' = [handle EXCEPT ![s] = h]
                  /\ failures' = [failures EXCEPT ![s] = @ \cup Logged("commit", b, outcome)]
                  /\ commitOrder' = [commitOrder EXCEPT ![s] = Append(@, b)]
                  /\ via' = [via EXCEPT ![s][b].end =
                        TransactionResult(Kind(b), via[s][b].tx)]
                  /\ checkedOut' = [checkedOut EXCEPT ![b] = @ - 1]
                  /\ lent' = [lent EXCEPT ![b] = @ \ {via[s][b].conn}]
                  /\ store' = [store EXCEPT ![b] =
                        IF applied /\ b \in written[s] THEN @ \cup {s} ELSE @]
                  /\ IF r = "committed"
                     THEN /\ pc' = [pc EXCEPT ![s] = IF more THEN "commit" ELSE "done"]
                          /\ result' = [result EXCEPT ![s] = IF more THEN @ ELSE "ok"]
                     ELSE /\ pc' = [pc EXCEPT ![s] = AfterFailure(h, decl[s])]
                          /\ result' = [result EXCEPT ![s] =
                                LifecycleError("commit_err", outcome)]
    /\ UNCHANGED <<decl, idx, written, bodyOut, abortLog, startOrder, openOrder,
                   abortOrder>>
    /\ UNCHANGED offCoordinator

\* Step 4 / cleanup: abort the next open handle.  An abort failure is logged and
\* never replaces the error already recorded for the caller.
Abort(s) ==
    /\ pc[s] = "abort"
    /\ LET j == NextAbort(s)
           b == decl[s][j]
       IN \E outcome \in Outcomes :
            LET r == abort_transaction(outcome)
                h == [handle[s] EXCEPT ![b] = r]
            IN /\ handle' = [handle EXCEPT ![s] = h]
               /\ failures' = [failures EXCEPT ![s] = @ \cup Logged("abort", b, outcome)]
               /\ abortOrder' = [abortOrder EXCEPT ![s] = Append(@, b)]
               /\ via' = [via EXCEPT ![s][b].end =
                     TransactionResult(Kind(b), via[s][b].tx)]
               /\ checkedOut' = [checkedOut EXCEPT ![b] = @ - 1]
               /\ lent' = [lent EXCEPT ![b] = @ \ {via[s][b].conn}]
               /\ abortLog' = [abortLog EXCEPT ![s] =
                     IF r = "aborted" THEN @ ELSE @ \cup {b}]
               /\ pc' = [pc EXCEPT ![s] = AfterFailure(h, decl[s])]
    /\ UNCHANGED <<decl, idx, written, bodyOut, result, startOrder, openOrder,
                   commitOrder, store>>
    /\ UNCHANGED offCoordinator

Step(s) == Begin(s) \/ Connect(s) \/ Start(s) \/ Body(s) \/ Commit(s) \/ Abort(s)

Next == \E s \in Scopes : Step(s)

Spec == Init /\ [][Next]_vars

\* Every coordinator step is an awaited call that returns or times out.
FairSpec == Spec /\ \A s \in Scopes : WF_vars(Step(s))

TypeOK ==
    /\ pc \in [Scopes -> {"idle", "connect", "start", "body", "commit", "abort", "done"}]
    /\ decl \in [Scopes -> ScopeTypes]
    /\ handle \in [Scopes -> [Backends -> HandleStates]]
    /\ bodyOut \in [Scopes -> {"none", "ok", "body_err", "cancelled"}]
    /\ result \in [Scopes -> Results]
    /\ checkedOut \in [Backends -> 0..PoolMax]
    /\ lent \in [Backends -> SUBSET ConnIds]
    /\ via \in [Scopes -> [Backends ->
          [conn : 0..PoolMax, tx : 0..PoolMax, body : 0..PoolMax, end : 0..PoolMax]]]
    /\ store \in [Backends -> SUBSET Scopes]

\* ---------------------------------------------------------- the rate limiter

\* The cache_otp_throttle calls in flight for user u.
OtpInFlight(u) ==
    {q \in Callers : cpc[q] # "idle" /\ method[q] = "cache_otp_throttle" /\ user[q] = u}

\* The first statement of every contract method: take a connection from the pool
\* (self.client.connect()?, self.connection()?); without one the method returns
\* the error at once.
\* The callers are interchangeable threads of the server: a new call is taken by
\* the first of them that is free.
Enter(p, m, u, first) ==
    /\ cpc[p] = "idle"
    /\ \A q \in Callers : q < p => cpc[q] # "idle"
    /\ calls < MaxCalls
    /\ calls' = calls + 1
    /\ \E outcome \in RedisOutcomes :
         /\ (outcome = "ok") => redisOut < RedisPoolMax
         /\ IF outcome = "ok"
            THEN /\ redisOut' = redisOut + 1
                 /\ cpc' = [cpc EXCEPT ![p] = first]
                 /\ method' = [method EXCEPT ![p] = m]
                 /\ user' = [user EXCEPT ![p] = u]
                 /\ hist' = [hist EXCEPT ![u] =
                       IF m # "cache_otp_throttle" THEN @
                       ELSE IF OtpInFlight(u) # {}
                       THEN [@ EXCEPT !.otpCalls = @ + 1]
                       ELSE [@ EXCEPT !.otpBase = CountOf(cache, construct_key("otp_attempts", u)),
                                      !.otpCalls = 1, !.otpClean = TRUE]]
                 /\ UNCHANGED returned
            ELSE /\ returned' = [method |-> m, user |-> u, value |-> Err]
                 /\ UNCHANGED <<redisOut, cpc, method, user, hist>>
    /\ UNCHANGED <<cache, now, seen, attempts>>

\* The method returns r: its connection goes out of scope with it.
Return(p, r) ==
    /\ returned' = [method |-> method[p], user |-> user[p], value |-> r]
    /\ cpc' = [cpc EXCEPT ![p] = "idle"]
    /\ method' = [method EXCEPT ![p] = "none"]
    /\ user' = [user EXCEPT ![p] = "u1"]
    /\ seen' = [seen EXCEPT ![p] = "none"]
    /\ attempts' = [attempts EXCEPT ![p] = 0]
    /\ redisOut' = Drop(redisOut)

\* fn cache_login_attempt(&self, user_id) -> Result<u8, Error>
cache_login_attempt(p) ==
    /\ \E u \in Users : Enter(p, "cache_login_attempt", u, "incr")
    /\ UNCHANGED offLimiter

\* match connection.incr::<&str, u8, u8>(&key, 1) { Ok(c) => Ok(c), Err(_) => .. }
LoginIncr(p) ==
    /\ cpc[p] = "incr"
    /\ LET key == construct_key("login_attempts", user[p])
       IN \E outcome \in RedisOutcomes :
            IF outcome = "ok"
            THEN /\ cache' = incr(cache, key, 1, now)
                 /\ hist' = [hist EXCEPT ![user[p]].loginOk = @ + 1,
                                         ![user[p]].loginDel = Restarted(@)]
                 /\ \E reply \in U8Reply(cache'[key].val) :
                       IF reply.tag = "ok"
                       THEN Return(p, reply)
                       ELSE /\ seen' = [seen EXCEPT ![p] = "error"]
                            /\ cpc' = [cpc EXCEPT ![p] = "init"]
                            /\ UNCHANGED <<redisOut, attempts, returned, method, user>>
            ELSE /\ seen' = [seen EXCEPT ![p] = SeenOnRead(cache, key, outcome)]
                 /\ cpc' = [cpc EXCEPT ![p] = "init"]
                 /\ UNCHANGED <<cache, redisOut, attempts, returned, method, user, hist>>
    /\ UNCHANGED <<now, calls>>
    /\ UNCHANGED offLimiter

\* Err(_) => connection.set_ex::<String, u8, u8>(key, 1, WRONG_PASSWORD_CACHE_DURATION)
LoginInit(p) ==
    /\ cpc[p] = "init"
    /\ LET key == construct_key("login_attempts", user[p])
       IN \E outcome \in RedisOutcomes :
            IF outcome = "ok"
            THEN /\ cache' = set_ex(cache, key, 1, WRONG_PASSWORD_CACHE_DURATION, now)
                 /\ \E r \in SetExReply :
                       /\ Return(p, r)
                       /\ hist' = [hist EXCEPT
                             ![user[p]].loginOk = IF r.tag = "ok" THEN @ + 1 ELSE @,
                             ![user[p]].loginClean = FALSE,
                             ![user[p]].loginDel = Restarted(@)]
            ELSE /\ Return(p, Err)
                 /\ UNCHANGED <<cache, hist>>
    /\ UNCHANGED <<now, calls>>
    /\ UNCHANGED offLimiter

\* fn cache_otp_throttle(&self, user_id) -> Result<i64, Error>
cache_otp_throttle(p) ==
    /\ \E u \in Users : Enter(p, "cache_otp_throttle", u, "get")
    /\ UNCHANGED offLimiter

\* match connection.get::<&str, i64>(&attempt_key) { Ok(attempts) => .., Err(_) => .. }
OtpGet(p) ==
    /\ cpc[p] = "get"
    /\ LET key == construct_key("otp_attempts", user[p])
       IN \E outcome \in RedisOutcomes :
            LET met == SeenOnRead(cache, key, outcome)
            IN /\ seen' = [seen EXCEPT ![p] = met]
               /\ attempts' = [attempts EXCEPT ![p] =
                     IF met = "hit" THEN cache[key].val ELSE 0]
               /\ hist' = [hist EXCEPT ![user[p]].otpClean = @ /\ met # "error"]
    /\ cpc' = [cpc EXCEPT ![p] = "set_throttle"]
    /\ UNCHANGED <<cache, now, redisOut, calls, method, user, returned>>
    /\ UNCHANGED offLimiter

\* Both arms first: set_ex(&throttle_key, Utc::now().timestamp(), OTP_THROTTLE_DURATION)?
OtpSetThrottle(p) ==
    /\ cpc[p] = "set_throttle"
    /\ LET key == construct_key("otp_throttle", user[p])
       IN \E outcome \in RedisOutcomes :
            IF outcome = "ok"
            THEN /\ cache' = set_ex(cache, key, now, OTP_THROTTLE_DURATION, now)
                 /\ cpc' = [cpc EXCEPT ![p] = "set_attempts"]
                 /\ UNCHANGED <<redisOut, seen, attempts, returned, method, user, hist>>
            ELSE /\ Return(p, Err)
                 /\ hist' = [hist EXCEPT ![user[p]].otpClean = FALSE]
                 /\ UNCHANGED cache
    /\ UNCHANGED <<now, calls>>
    /\ UNCHANGED offLimiter

\* Then set_ex(&attempt_key, attempts + 1, ..) and Ok(attempts) in the Ok arm,
\* set_ex(&attempt_key, 1, ..) in the Err arm.
OtpSetAttempts(p) ==
    /\ cpc[p] = "set_attempts"
    /\ LET key == construct_key("otp_attempts", user[p])
           found == seen[p] = "hit"
       IN \E outcome \in RedisOutcomes :
            IF outcome = "ok"
            THEN /\ cache' = set_ex(cache, key, IF found THEN attempts[p] + 1 ELSE 1,
                                    OTP_THROTTLE_DURATION, now)
                 /\ \E r \in (IF found THEN {Ok(attempts[p])} ELSE SetExReply) :
                       Return(p, r)
                 /\ UNCHANGED hist
            ELSE /\ Return(p, Err)
                 /\ hist' = [hist EXCEPT ![user[p]].otpClean = FALSE]
                 /\ UNCHANGED cache
    /\ UNCHANGED <<now, calls>>
    /\ UNCHANGED offLimiter

\* fn delete_login_attempts(&self, user_id) -> Result<(), Error>
delete_login_attempts(p) ==
    /\ \E u \in Users : Enter(p, "delete_login_attempts", u, "del")
    /\ UNCHANGED offLimiter

\* self.delete(AuthCache::LoginAttempts, user_id): conn.del(key)
LoginDel(p) ==
    /\ cpc[p] = "del"
    /\ LET key == construct_key("login_attempts", user[p])
       IN \E outcome \in RedisOutcomes :
            IF outcome = "ok"
            THEN /\ cache' = del(cache, key)
                 /\ Return(p, DelReply(cache, key))
                 /\ hist' = [hist EXCEPT
                       ![user[p]].loginOk = 0,
                       ![user[p]].loginClean = TRUE,
                       ![user[p]].loginDel =
                           IF DelReply(cache, key).tag # "ok" THEN @
                           ELSE IF @ \in Deleted THEN "deleted_again" ELSE "deleted"]
            ELSE /\ Return(p, Err)
                 /\ UNCHANGED <<cache, hist>>
    /\ UNCHANGED <<now, calls>>
    /\ UNCHANGED offLimiter

\* fn delete_otp_throttle(&self, user_id) -> Result<(), Error>
delete_otp_throttle(p) ==
    /\ \E u \in Users : Enter(p, "delete_otp_throttle", u, "del_throttle")
    /\ UNCHANGED offLimiter

\* self.delete(AuthCache::OTPThrottle, user_id)?
OtpDelThrottle(p) ==
    /\ cpc[p] = "del_throttle"
    /\ LET key == construct_key("otp_throttle", user[p])
       IN \E outcome \in RedisOutcomes :
            IF outcome = "ok"
            THEN /\ cache' = del(cache, key)
                 /\ IF DelReply(cache, key).tag = "ok"
                    THEN /\ cpc' = [cpc EXCEPT ![p] = "del_attempts"]
                         /\ UNCHANGED <<redisOut, seen, attempts, returned, method, user>>
                    ELSE Return(p, Err)
            ELSE /\ Return(p, Err)
                 /\ UNCHANGED cache
    /\ UNCHANGED <<now, calls, hist>>
    /\ UNCHANGED offLimiter

\* self.delete(AuthCache::OTPAttempts, user_id)?; Ok(())
OtpDelAttempts(p) ==
    /\ cpc[p] = "del_attempts"
    /\ LET key == construct_key("otp_attempts", user[p])
       IN \E outcome \in RedisOutcomes :
            IF outcome = "ok"
            THEN /\ cache' = del(cache, key)
                 /\ Return(p, DelReply(cache, key))
                 /\ hist' = [hist EXCEPT ![user[p]].otpClean = @ /\ ~cache[key].present]
            ELSE /\ Return(p, Err)
                 /\ UNCHANGED <<cache, hist>>
    /\ UNCHANGED <<now, calls>>
    /\ UNCHANGED offLimiter

\* Time passes; the server drops the keys whose expiry has come.
Tick ==
    /\ now < MaxTime
    /\ now' = now + 1
    /\ cache' = Expire(cache, now')
    /\ hist' = [u \in Users |->
          LET login == construct_key("login_attempts", u)
              otp == construct_key("otp_attempts", u)
          IN [hist[u] EXCEPT
                !.loginOk = IF cache[login].present /\ ~cache'[login].present THEN 0 ELSE @,
                !.loginClean = @ \/ (cache[login].present /\ ~cache'[login].present),
                !.otpClean = @ /\ ~(cache[otp].present /\ ~cache'[otp].present)]]
    /\ UNCHANGED <<redisOut, calls, cpc, method, user, seen, attempts, returned>>
    /\ UNCHANGED offLimiter

CallerStep(p) ==
    \/ cache_login_attempt(p) \/ LoginIncr(p) \/ LoginInit(p)
    \/ cache_otp_throttle(p) \/ OtpGet(p) \/ OtpSetThrottle(p) \/ OtpSetAttempts(p)
    \/ delete_login_attempts(p) \/ LoginDel(p)
    \/ delete_otp_throttle(p) \/ OtpDelThrottle(p) \/ OtpDelAttempts(p)

LimiterNext == Tick \/ \E p \in Callers : CallerStep(p)

LimiterSpec == Init /\ [][LimiterNext]_vars

\* The limiter from the state in which all but one of the attempts a u8 can count
\* have been recorded for "u1".
LongRunInit ==
    /\ CoordinatorInit /\ LimiterInitAfter(U8Max - 1) /\ ServiceInit
    /\ RepositoryInit /\ OAuthInit

LongRunSpec == LongRunInit /\ [][LimiterNext]_vars

LimiterTypeOK ==
    /\ cache \in [Keys -> [present : BOOLEAN, val : Nat, expires : BOOLEAN, exp : Nat]]
    /\ now \in 0..MaxTime
    /\ redisOut \in 0..RedisPoolMax
    /\ calls \in 0..MaxCalls
    /\ cpc \in [Callers -> {"idle", "incr", "init", "get", "set_throttle",
                            "set_attempts", "del", "del_throttle",
                            "del_attempts"}]
    /\ seen \in [Callers -> {"none", "hit", "miss", "error"}]
    /\ returned.value \in [tag : {"none", "ok", "err"}, val : Nat]

\* ---------------------------------------------------------- the cache service

\* Cache::set(cache_id, key, val, ex, conn)
Cache_set(cache_id, key, val, ex, outcome) ==
    /\ ops < MaxStoreOps
    /\ ops' = ops + 1
    /\ LET k == prefix_id(cache_id, key)
           value == to_string(val)
       IN IF outcome = "ok"
          THEN /\ kv' = IF ex.some THEN conn_set_ex(kv, k, value, ex.secs, clock)
                        ELSE conn_set(kv, k, value)
               /\ lastSet' = [lastSet EXCEPT ![<<cache_id, key>>] = WasSet(val, ex, clock)]
          ELSE UNCHANGED <<kv, lastSet>>
    /\ UNCHANGED <<clock, got>>
    /\ UNCHANGED offService

\* Cache::get::<T>(cache_id, key, conn)
Cache_get(cache_id, key, T, outcome) ==
    /\ LET k == prefix_id(cache_id, key)
       IN got' = [cache_id |-> cache_id, key |-> key, T |-> T, outcome |-> outcome,
                  result |-> IF outcome = "ok" THEN conn_get(kv, k, T) ELSE RedisError]
    /\ UNCHANGED <<kv, clock, ops, lastSet>>
    /\ UNCHANGED offService

\* Cache::delete(cache_id, key, conn)
Cache_delete(cache_id, key, outcome) ==
    /\ ops < MaxStoreOps
    /\ ops' = ops + 1
    /\ LET k == prefix_id(cache_id, key)
       IN IF outcome = "ok"
          THEN /\ kv' = conn_del(kv, k)
               /\ lastSet' = [lastSet EXCEPT ![<<cache_id, key>>] = NeverSet]
          ELSE UNCHANGED <<kv, lastSet>>
    /\ UNCHANGED <<clock, got>>
    /\ UNCHANGED offService

\* Time passes on the server.
StoreTick ==
    /\ clock < MaxTime
    /\ clock' = clock + 1
    /\ kv' = StoreExpire(kv, clock')
    /\ UNCHANGED <<ops, got, lastSet>>
    /\ UNCHANGED offService

ServiceNext ==
    \/ StoreTick
    \/ \E p \in StorePairs : \E outcome \in RedisOutcomes :
         \/ \E val \in JsonValues : \E ex \in ExChoices :
                Cache_set(p[1], p[2], val, ex, outcome)
         \/ \E T \in JsonTypes : Cache_get(p[1], p[2], T, outcome)
         \/ Cache_delete(p[1], p[2], outcome)

ServiceSpec == Init /\ [][ServiceNext]_vars

ServiceTypeOK ==
    /\ clock \in 0..MaxTime
    /\ ops \in 0..MaxStoreOps
    /\ \A k \in DOMAIN kv : kv[k].present => kv[k].text # ""
    /\ got.result.tag \in {"ok", "redis", "serde"}

\* ------------------------------------------------------ the session repository

Called(m, id, csrf_ok, q, r) ==
    /\ repoOut' = [method |-> m, id |-> id, csrf_ok |-> csrf_ok, query |-> q, result |-> r]
    /\ purged' = IF m = "get_valid_by_id" THEN purged ELSE NoPurge

\* PgSessionAdapter::create: insert_into(sessions).get_result(conn)
create(id, q) ==
    /\ sessions[id] = "absent"
    /\ IF q = "ok"
       THEN /\ sessions' = [sessions EXCEPT ![id] = "valid"]
            /\ Called("create", id, TRUE, q, AdapterOk(id))
       ELSE /\ Called("create", id, TRUE, q, From(q))
            /\ UNCHANGED sessions
    /\ UNCHANGED offRepository

\* PgSessionAdapter::get_valid_by_id(conn, id, csrf)
get_valid_by_id(id, csrf_ok, q) ==
    /\ Called("get_valid_by_id", id, csrf_ok, q,
              IF q = "ok" THEN first_row(Matching(sessions, "get_valid_by_id", id, csrf_ok))
              ELSE From(q))
    /\ UNCHANGED sessions
    /\ UNCHANGED offRepository

\* PgSessionAdapter::refresh(conn, id, csrf): expires_at = now + 30 minutes
refresh(id, csrf_ok, q) ==
    /\ LET rows == Matching(sessions, "refresh", id, csrf_ok)
       IN IF q = "ok"
          THEN /\ sessions' = [i \in SessionIds |-> IF i \in rows THEN "valid" ELSE sessions[i]]
               /\ Called("refresh", id, csrf_ok, q, pop_or_else(rows))
          ELSE /\ Called("refresh", id, csrf_ok, q, From(q))
               /\ UNCHANGED sessions
    /\ UNCHANGED offRepository

\* PgSessionAdapter::expire(conn, id): expires_at = now
expire(id, q) ==
    /\ LET rows == Matching(sessions, "expire", id, TRUE)
       IN IF q = "ok"
          THEN /\ sessions' = [i \in SessionIds |-> IF i \in rows THEN "expiring" ELSE sessions[i]]
               /\ Called("expire", id, TRUE, q, pop_or_else(rows))
          ELSE /\ Called("expire", id, TRUE, q, From(q))
               /\ UNCHANGED sessions
    /\ UNCHANGED offRepository

\* PgSessionAdapter::purge(conn, usr_id, skip): expires_at = now on the rows of
\* the user with expires_at >= now, the skipped one left out.
purge(usr_id, skip, q) ==
    /\ LET rows == PurgeRows(sessions, usr_id, skip)
       IN IF q = "ok"
          THEN /\ sessions' = [i \in SessionIds |-> IF i \in rows THEN "expiring" ELSE sessions[i]]
               /\ purged' = [user_id |-> usr_id, skip |-> skip, query |-> q,
                             result |-> ManyOk(rows)]
          ELSE /\ purged' = [user_id |-> usr_id, skip |-> skip, query |-> q,
                             result |-> ManyErr(q)]
               /\ UNCHANGED sessions
    /\ repoOut' = NoCall
    /\ UNCHANGED offRepository

\* Time passes: the sessions whose expires_at was now have expired, and those
\* in due have reached their expires_at.
Lapse(due) ==
    /\ due \subseteq {i \in SessionIds : sessions[i] = "valid"}
    /\ sessions' = [i \in SessionIds |->
          IF sessions[i] = "expiring" THEN "expired"
          ELSE IF i \in due THEN "expiring" ELSE sessions[i]]
    /\ sessions' # sessions
    /\ purged' = NoPurge
    /\ UNCHANGED repoOut
    /\ UNCHANGED offRepository

RepositoryNext ==
    \/ \E due \in SUBSET SessionIds : Lapse(due)
    \/ \E usr_id \in SessionUsers, skip \in SkipChoices, q \in QueryOutcomes :
          purge(usr_id, skip, q)
    \/ \E id \in SessionIds :
          \E q \in QueryOutcomes :
              \/ create(id, q)
              \/ expire(id, q)
              \/ \E csrf_ok \in BOOLEAN :
                    get_valid_by_id(id, csrf_ok, q) \/ refresh(id, csrf_ok, q)

RepositorySpec == Init /\ [][RepositoryNext]_vars

RepositoryTypeOK ==
    /\ sessions \in [SessionIds -> {"absent"} \cup Expiries]
    /\ purged.user_id \in {"none"} \cup SessionUsers
    /\ purged.skip \in SkipChoices
    /\ purged.result.rows \subseteq SessionIds
    /\ repoOut.result.tag \in {"none", "ok", "DoesNotExist", "Diesel"}

\* ---------------------------------------------------- the oauth repository

OAuthCalled(m, arg, q, r) ==
    oauthOut' = [method |-> m, arg |-> arg, query |-> q, result |-> r, rows |-> {}]

\* Result<Vec<OAuthMeta>, RepoAdapterError>
OAuthCalledMany(m, q, rows) ==
    oauthOut' = [method |-> m, arg |-> "u1", query |-> q,
                 result |-> IF q = "ok" THEN AdapterOk("rows") ELSE From(q),
                 rows |-> IF q = "ok" THEN rows ELSE {}]

\* PgOAuthAdapter::create: insert_into(oauth).values(entry).get_result(conn)
PgOAuthAdapter_create(id, ex, q) ==
    /\ ~oauth[id].present
    /\ IF q = "ok"
       THEN /\ oauth' = [oauth EXCEPT ![id] = OAuthMeta(FALSE, expires_in(ex))]
            /\ OAuthCalled("create", id, q, AdapterOk(id))
       ELSE /\ OAuthCalled("create", id, q, From(q))
            /\ UNCHANGED oauth
    /\ UNCHANGED offOAuth

\* PgOAuthAdapter::get_by_id, get_by_account_id, get_by_provider: the filters of
\* the method, revoked = false and expires_at > now, then .first(conn)
PgOAuthAdapter_get(m, arg, q) ==
    /\ m \in {"get_by_id", "get_by_account_id", "get_by_provider"}
    /\ OAuthCalled(m, arg, q,
                   IF q = "ok" THEN first_row(OAuthMatching(oauth, m, arg)) ELSE From(q))
    /\ UNCHANGED oauth
    /\ UNCHANGED offOAuth

\* PgOAuthAdapter::revoke(conn, access_token): revoked = true
PgOAuthAdapter_revoke(token, q) ==
    /\ LET rows == OAuthMatching(oauth, "revoke", token)
       IN IF q = "ok"
          THEN /\ oauth' = [i \in OAuthIds |->
                     IF i \in rows THEN [oauth[i] EXCEPT !.revoked = TRUE] ELSE oauth[i]]
               /\ OAuthCalled("revoke", token, q, pop_or_else(rows))
          ELSE /\ OAuthCalled("revoke", token, q, From(q))
               /\ UNCHANGED oauth
    /\ UNCHANGED offOAuth

\* PgOAuthAdapter::update(conn, user_id, tokens, provider): the tokens and the
\* expires_at of the entry of the provider are replaced
PgOAuthAdapter_update(prov, ex, q) ==
    /\ LET rows == OAuthMatching(oauth, "update", prov)
       IN IF q = "ok"
          THEN /\ oauth' = [i \in OAuthIds |->
                     IF i \in rows THEN [oauth[i] EXCEPT !.expires_at = expires_in(ex)]
                     ELSE oauth[i]]
               /\ OAuthCalled("update", prov, q, pop_or_else(rows))
          ELSE /\ OAuthCalled("update", prov, q, From(q))
               /\ UNCHANGED oauth
    /\ UNCHANGED offOAuth

\* PgOAuthAdapter::get_by_user_id(conn, user_id): every entry of the user that
\* passes the filters
PgOAuthAdapter_get_by_user_id(q) ==
    /\ OAuthCalledMany("get_by_user_id", q, OAuthMatching(oauth, "get_by_user_id", "u1"))
    /\ UNCHANGED oauth
    /\ UNCHANGED offOAuth

\* PgOAuthAdapter::revoke_all(conn, user_id): revoked = true on the user's entries
PgOAuthAdapter_revoke_all(q) ==
    /\ LET rows == OAuthMatching(oauth, "revoke_all", "u1")
       IN /\ OAuthCalledMany("revoke_all", q, rows)
          /\ IF q = "ok"
             THEN oauth' = [i \in OAuthIds |->
                     IF i \in rows THEN [oauth[i] EXCEPT !.revoked = TRUE] ELSE oauth[i]]
             ELSE UNCHANGED oauth
    /\ UNCHANGED offOAuth

\* Time passes: the entries whose expires_at was now have expired, and those in
\* due have reached their expires_at; an entry without one is not touched.
OAuthLapse(due) ==
    /\ due \subseteq {i \in OAuthIds : oauth[i].present /\ oauth[i].expires_at = "valid"}
    /\ oauth' = [i \in OAuthIds |->
          IF oauth[i].present /\ oauth[i].expires_at = "expiring"
          THEN [oauth[i] EXCEPT !.expires_at = "expired"]
          ELSE IF i \in due THEN [oauth[i] EXCEPT !.expires_at = "expiring"]
          ELSE oauth[i]]
    /\ oauth' # oauth
    /\ UNCHANGED oauthOut
    /\ UNCHANGED offOAuth

OAuthNext ==
    \/ \E due \in SUBSET OAuthIds : OAuthLapse(due)
    \/ \E q \in QueryOutcomes :
          \/ \E id \in OAuthIds, ex \in {None, Some(1)} : PgOAuthAdapter_create(id, ex, q)
          \/ \E id \in OAuthIds : PgOAuthAdapter_get("get_by_id", id, q)
          \/ \E a \in AccountIds : PgOAuthAdapter_get("get_by_account_id", a, q)
          \/ \E prov \in OAuthProviders : PgOAuthAdapter_get("get_by_provider", prov, q)
          \/ PgOAuthAdapter_get_by_user_id(q)
          \/ \E token \in AccessTokens : PgOAuthAdapter_revoke(token, q)
          \/ PgOAuthAdapter_revoke_all(q)
          \/ \E prov \in OAuthProviders, ex \in {None, Some(1)} :
                PgOAuthAdapter_update(prov, ex, q)

OAuthSpec == Init /\ [][OAuthNext]_vars

OAuthTypeOK ==
    /\ oauth \in [OAuthIds -> [present : BOOLEAN, revoked : BOOLEAN,
                               expires_at : {Null} \cup Expiries]]
    /\ oauthOut.result.tag \in {"none", "ok", "DoesNotExist", "Diesel"}
    /\ oauthOut.rows \subseteq OAuthIds

\* ------------------------------------------------------- claim vocabulary

NoneHeld(s) == \A b \in Backends : handle[s][b] \notin {"conn", "open"}

Terminals(s, b) == Count(commitOrder[s], b) + Count(abortOrder[s], b)

CommitCallsSucceeded(s) == \A b \in Backends : handle[s][b] # "commit_failed"

\* --------------------------------------------------------------------- C1

C4_AbortInReverseOrder ==
    \A s \in Scopes : bodyOut[s] = "body_err" =>
        /\ commitOrder[s] = << >>
        /\ \A b \in Backends : handle[s][b] # "committed" /\ s \notin store[b]
        /\ IsPrefix(abortOrder[s], Reverse(openOrder[s]))
        /\ Done(s) => abortOrder[s] = Reverse(openOrder[s])

\* A failed body over two open handles: the second was aborted before the first.
C4_Witness ==
    \E s \in Scopes :
        /\ Done(s) /\ bodyOut[s] = "body_err"
        /\ Len(openOrder[s]) >= 2
        /\ abortOrder[s] = Reverse(openOrder[s])

\* --------------------------------------------------------------------- C5

\* C5: when the body fails and abort calls fail too, the caller still receives
\* the body's error, every failed abort is in the log, and the remaining handles
\* are aborted all the same.
C5_AbortErrorsDoNotMask ==
    \A s \in Scopes : bodyOut[s] = "body_err" =>
        /\ result[s] = "body_err"
        /\ Failed(s, "abort") \subseteq abortLog[s]
        /\ Done(s) => Opened(s) \subseteq Range(abortOrder[s])

\* The abort of the last-opened handle failed and the handle opened before it
\* was aborted nonetheless.
C5_Witness ==
    \E s \in Scopes :
        /\ Done(s) /\ bodyOut[s] = "body_err" /\ result[s] = "body_err"
        /\ Len(openOrder[s]) >= 2
        /\ openOrder[s][Len(openOrder[s])] \in Failed(s, "abort") \cap abortLog[s]
        /\ handle[s][openOrder[s][1]] = "aborted"

\* --------------------------------------------------------------------- C6

\* C6: commits are issued only after the body returned success, and in the order
\* the handles were opened.
C6_CommitInOpeningOrder ==
    \A s \in Scopes :
        /\ IsPrefix(commitOrder[s], openOrder[s])
        /\ commitOrder[s] # << >> => bodyOut[s] = "ok"

\* Two handles were committed, the first opened first.
C6_Witness ==
    \E s \in Scopes :
        /\ Len(commitOrder[s]) >= 2
        /\ commitOrder[s] = openOrder[s]
        /\ \A b \in Opened(s) : handle[s][b] = "committed"

\* --------------------------------------------------------------------- C7

\* C7: when a commit fails after earlier handles were committed, those handles
\* stay committed with their writes visible, no abort is issued on them, and the
\* caller receives a commit failure, never success.
C7_CommitFailureSurfaced ==
    \A s \in Scopes : Failed(s, "commit") # {} =>
        /\ result[s] \in {"commit_err", "timeout"}
        /\ \A b \in Range(commitOrder[s]) \ Failed(s, "commit") :
              /\ handle[s][b] = "committed"
              /\ b \notin Range(abortOrder[s])
              /\ b \in written[s] => s \in store[b]

\* The second commit failed after the first succeeded; the scope has returned.
C7_Witness ==
    \E s \in Scopes :
        /\ Done(s) /\ Len(commitOrder[s]) >= 2
        /\ handle[s][commitOrder[s][1]] = "committed"
        /\ s \in store[commitOrder[s][1]]
        /\ commitOrder[s][2] \in Failed(s, "commit")
        /\ result[s] = "commit_err"

\* --------------------------------------------------------------------- C8

Ascending(q) == \A i, j \in 1..Len(q) : i < j => q[i] < q[j]

Descending(q) == \A i, j \in 1..Len(q) : i < j => q[i] > q[j]

Pos(q, x) == CHOOSE j \in 1..Len(q) : q[j] = x

SameRelativeOrder ==
    \A s, t \in Scopes : \A a, b \in Opened(s) \cap Opened(t) :
        Pos(openOrder[s], a) < Pos(openOrder[s], b)
            <=> Pos(openOrder[t], a) < Pos(openOrder[t], b)

AnyTimeout(s) == \E f \in failures[s] : f[3] = "timeout"

C11_ZeroBackendScope ==
    \A s \in Scopes : (pc[s] # "idle" /\ decl[s] = << >>) =>
        /\ \A b \in Backends : handle[s][b] = "none"
        /\ startOrder[s] = << >> /\ openOrder[s] = << >>
        /\ commitOrder[s] = << >> /\ abortOrder[s] = << >>
        /\ failures[s] = {}
        /\ pc[s] \in {"body", "done"}
        /\ Done(s) => (bodyOut[s] # "none" /\ result[s] = bodyOut[s])

\* A scope without backends returned success while the other scope held the
\* only connection of a backend.
C11_Witness ==
    \E s, t \in Scopes :
        /\ Done(s) /\ decl[s] = << >> /\ result[s] = "ok"
        /\ \E b \in Backends : handle[t][b] = "open" /\ checkedOut[b] = PoolMax

\* -------------------------------------------------------------------- C12

\* The error kind a failed round-trip hands to the caller, by call and outcome.
Surfaced(call, outcome) ==
    IF outcome = "timeout"
    THEN IF call = "connect" THEN {"pool_exhausted", "timeout"} ELSE {"timeout"}
    ELSE IF call = "connect" THEN {"conn_err"}
    ELSE IF call = "start" THEN {"start_err"}
    ELSE {"commit_err"}

\* C12: within one scope start_transaction, commit and abort are each called at
\* most once per backend, a backend whose start failed is never started again,
\* and the caller receives the error of the connect, start or commit call that
\* failed, of the kind that call raised.
C12_NoRetryErrorUnchanged ==
    \A s \in Scopes :
        /\ \A b \in Backends :
              /\ Count(startOrder[s], b) <= 1
              /\ Count(commitOrder[s], b) <= 1
              /\ Count(abortOrder[s], b) <= 1
              /\ b \in Failed(s, "start") => b \notin Opened(s)
        /\ \A f \in failures[s] :
              f[1] # "abort" => result[s] \in Surfaced(f[1], f[3])

\* One scope returned the start error of its second backend after one call to
\* start on each backend, the other returned the timeout of its only commit call.
C12_Witness ==
    \E s, t \in Scopes :
        /\ Done(s) /\ Len(startOrder[s]) = 2 /\ result[s] = "start_err"
        /\ <<"start", startOrder[s][2], "err">> \in failures[s]
        /\ Done(t) /\ Len(commitOrder[t]) = 1 /\ result[t] = "timeout"
        /\ <<"commit", commitOrder[t][1], "timeout">> \in failures[t]

\* -------------------------------------------------------------------- C13

\* The scopes that hold a connection or an open handle of backend b.
Holders(b) == {s \in Scopes : handle[s][b] \in {"conn", "open"}}

\* A scope has committed, aborted and written through none but the handles it
\* started itself, and every connection or handle held is one checked-out
\* connection of its backend: no connection backs the handles of two scopes.
OwnHandlesOnly ==
    /\ \A s \in Scopes :
          (Range(commitOrder[s]) \cup Range(abortOrder[s]) \cup written[s])
              \subseteq Opened(s) \cap Range(decl[s])
    /\ \A b \in Backends : Cardinality(Holders(b)) = checkedOut[b]

ConnectReturned(s, b, full) ==
    \/ /\ handle'[s][b] = "conn"
       /\ ~full
       /\ checkedOut'[b] = checkedOut[b] + 1
    \/ /\ handle'[s][b] = "none"
       /\ checkedOut'[b] = checkedOut[b]
       /\ result'[s] \in {"pool_exhausted", "conn_err", "timeout"}
       /\ result'[s] = "pool_exhausted" <=>
              (full /\ <<"connect", b, "timeout">> \in failures'[s])
       /\ result'[s] = "conn_err" <=> <<"connect", b, "err">> \in failures'[s]

InFlight == {p \in Callers : cpc[p] # "idle"}

\* C15: the connections out of the redis pool are those of the contract calls in
\* flight, one each, never more than the pool holds, and none when no call is in
\* flight: every return of a method, the early error returns included, gives its
\* connection back.
C15_ConnectionReturnedOnEveryExit ==
    /\ redisOut <= RedisPoolMax
    /\ redisOut = Cardinality(InFlight)
    /\ InFlight = {} => redisOut = 0

\* cache_otp_throttle left through the `?` of its second set_ex, after the first
\* had stored the timestamp: the call returned the error, no call is in flight
\* and no connection is out.
C15_Witness ==
    /\ InFlight = {} /\ redisOut = 0 /\ calls = 1
    /\ returned.method = "cache_otp_throttle" /\ returned.value = Err
    /\ cache[construct_key("otp_throttle", returned.user)].present
    /\ ~cache[construct_key("otp_attempts", returned.user)].present

\* -------------------------------------------------------------------- C16

LoginKey(u) == construct_key("login_attempts", u)

\* C16 (as stated): once k >= 1 cache_login_attempt calls have returned Ok on a
\* key that was absent before them and has not been deleted or expired since, the
\* counter is present and reads k, and the call that returned last, the k-th,
\* returned k.
C16_AsStated ==
    \A u \in Users : hist[u].loginOk >= 1 =>
        /\ cache[LoginKey(u)].present
        /\ cache[LoginKey(u)].val = hist[u].loginOk
        /\ (returned.method = "cache_login_attempt" /\ returned.user = u
                /\ returned.value.tag = "ok")
              => returned.value.val = hist[u].loginOk

\* What does hold: on the keys the Err arm of cache_login_attempt has not
\* written, no increment is lost and the k-th call returns k.
CounterCountsIncrements ==
    \A u \in Users : (hist[u].loginOk >= 1 /\ hist[u].loginClean) =>
        /\ cache[LoginKey(u)].present
        /\ cache[LoginKey(u)].val = hist[u].loginOk
        /\ (returned.method = "cache_login_attempt" /\ returned.user = u
                /\ returned.value.tag = "ok")
              => returned.value.val = hist[u].loginOk

\* -------------------------------------------------------------------- C17

LoginInFlight(u) ==
    {q \in Callers : cpc[q] # "idle" /\ method[q] = "cache_login_attempt" /\ user[q] = u}

\* C17 (as stated): when N >= 1 cache_login_attempt calls, concurrent or not,
\* have each made their one increment on a key that was absent before them, the
\* counter reads exactly N and the key has had its time-to-live set.
C17_AsStated ==
    \A u \in Users :
        (hist[u].loginOk >= 1 /\ hist[u].loginClean /\ LoginInFlight(u) = {}) =>
            /\ cache[LoginKey(u)].present
            /\ cache[LoginKey(u)].val = hist[u].loginOk
            /\ cache[LoginKey(u)].expires

\* -------------------------------------------------------------------- C18

OtpKey(u) == construct_key("otp_attempts", u)

\* C18 (as stated): when the N cache_otp_throttle calls of a run of overlapping
\* calls have all returned, every round-trip of theirs having got through and the
\* count not having expired, the stored count is at least n + N - 1, n being the
\* count when the first of them entered.
C18_AsStated ==
    \A u \in Users :
        (hist[u].otpCalls >= 1 /\ hist[u].otpClean /\ OtpInFlight(u) = {}) =>
            CountOf(cache, OtpKey(u)) >= hist[u].otpBase + hist[u].otpCalls - 1

\* What does hold: two racing calls lose at most one attempt.
TwoRacersLoseAtMostOne ==
    \A u \in Users :
        (hist[u].otpCalls \in {1, 2} /\ hist[u].otpClean /\ OtpInFlight(u) = {}) =>
            CountOf(cache, OtpKey(u)) >= hist[u].otpBase + hist[u].otpCalls - 1

\* -------------------------------------------------------------------- C19

\* The counter key of the call caller p is in.
CounterKey(p) ==
    IF method[p] = "cache_login_attempt" THEN LoginKey(user[p]) ELSE OtpKey(user[p])

\* C19 (as stated): a call whose read or increment of the counter met a cache
\* error, the key being there or not, does not go on to store a count: no step of
\* that call changes the counter key.
C19_AsStated ==
    [][\A p \in Callers : (seen[p] = "error" /\ cpc'[p] # cpc[p]) =>
            cache'[CounterKey(p)] = cache[CounterKey(p)]]_vars

\* What the code does instead: a count of two or more, met with a cache error, is
\* stored again as 1.
ResetOnCacheError ==
    \E p \in Callers :
        /\ seen[p] = "error" /\ cpc[p] \in {"init", "set_attempts"}
        /\ CountOf(cache, CounterKey(p)) >= 2

\* -------------------------------------------------------------------- C20

ThrottleKey(u) == construct_key("otp_throttle", u)

\* C20 (as stated): when a cache_otp_throttle call that has stored the timestamp
\* returns, by whichever return, the timestamp key holds the time of the call and
\* the attempt-count key holds the count it held before plus one (1 if it was
\* absent), both expiring OTP_THROTTLE_DURATION after they were stored.
C20_AsStated ==
    [][\A p \in Callers : (cpc[p] = "set_attempts" /\ cpc'[p] = "idle") =>
            LET before == cache[OtpKey(user[p])]
                after == cache'[OtpKey(user[p])]
                stamp == cache'[ThrottleKey(user[p])]
            IN /\ stamp.present /\ stamp.expires
               /\ stamp.val <= now /\ stamp.exp = stamp.val + OTP_THROTTLE_DURATION
               /\ after.present /\ after.expires
               /\ after.exp = now + OTP_THROTTLE_DURATION
               /\ after.val = CountOf(cache, OtpKey(user[p])) + 1]_vars

\* What does hold: a call that returns Ok has stored both keys.
OkReturnStoredBoth ==
    [][\A p \in Callers :
          (cpc[p] = "set_attempts" /\ cpc'[p] = "idle"
              /\ returned'.value.tag = "ok") =>
            /\ cache'[ThrottleKey(user[p])].present
            /\ cache'[OtpKey(user[p])] =
                  Entry(IF seen[p] = "hit" THEN attempts[p] + 1 ELSE 1,
                        TRUE, now + OTP_THROTTLE_DURATION)]_vars

\* -------------------------------------------------------------------- C21

\* C21 (as stated): when delete_otp_throttle returns after its first deletion was
\* carried out, by whichever return, neither the timestamp key nor the
\* attempt-count key of the user is present: the call never leaves one of the two
\* keys absent and the other present.
C21_AsStated ==
    [][\A p \in Callers : (cpc[p] = "del_attempts" /\ cpc'[p] = "idle") =>
            /\ ~cache'[ThrottleKey(user[p])].present
            /\ ~cache'[OtpKey(user[p])].present]_vars

\* What does hold: at a return of Ok the attempt-count key is gone.
OkReturnClearedCount ==
    [][\A p \in Callers :
          (cpc[p] = "del_attempts" /\ cpc'[p] = "idle" /\ returned'.value.tag = "ok") =>
            ~cache'[OtpKey(user[p])].present]_vars

\* -------------------------------------------------------------------- C22

\* C22 (as stated): every key the cache holds has an expiry set.
C22_AsStated == \A k \in Keys : cache[k].present => cache[k].expires

\* What does hold: the two keys cache_otp_throttle writes always carry an expiry,
\* no later than OTP_THROTTLE_DURATION from now.
OtpKeysExpire ==
    \A u \in Users : \A k \in {OtpKey(u), ThrottleKey(u)} :
        cache[k].present =>
            cache[k].expires /\ cache[k].exp > now /\ cache[k].exp <= now + OTP_THROTTLE_DURATION

\* -------------------------------------------------------------------- C23

\* C23 (as stated): an attempt that is recorded resets the time-to-live of its
\* counter key to the full duration of the category: when cache_login_attempt or
\* cache_otp_throttle returns Ok, the key expires OTP_THROTTLE_DURATION or
\* WRONG_PASSWORD_CACHE_DURATION from now.
C23_AsStated ==
    [][\A p \in Callers :
          (/\ cpc[p] \in {"incr", "init", "set_attempts"} /\ cpc'[p] = "idle"
           /\ returned'.value.tag = "ok") =>
            LET after == cache'[CounterKey(p)]
            IN /\ after.present /\ after.expires
               /\ after.exp = now + (IF method[p] = "cache_login_attempt"
                                     THEN WRONG_PASSWORD_CACHE_DURATION
                                     ELSE OTP_THROTTLE_DURATION)]_vars

\* What the code does for the login-attempts counter: the increment leaves the
\* expiry of the key as it was.
LoginIncrKeepsExpiry ==
    [][\A p \in Callers : (cpc[p] = "incr" /\ cpc'[p] = "idle") =>
            LET before == cache[CounterKey(p)]
                after == cache'[CounterKey(p)]
            IN /\ after.val = CountOf(cache, CounterKey(p)) + 1
               /\ after.expires = before.expires /\ after.exp = before.exp]_vars

\* -------------------------------------------------------------------- C24

\* After delete_login_attempts has returned Ok and before the next attempt is
\* recorded, the key is absent and a read of it is a miss.
DeletedReadsMiss ==
    \A u \in Users : hist[u].loginDel \in Deleted =>
        /\ ~cache[LoginKey(u)].present
        /\ SeenOnRead(cache, LoginKey(u), "ok") = "miss"

DelIdempotent ==
    \A k \in Keys :
        LET once == del(cache, k)
        IN /\ del(once, k) = once
           /\ DelReply(cache, k) = Ok(0) /\ DelReply(once, k) = Ok(0)
           /\ ~cache[k].present => once = cache

\* C25: deletion is idempotent: a DEL of an absent key succeeds and leaves the
\* cache unchanged, so delete applied twice ends as delete applied once; and no
\* step of delete_login_attempts on an absent key changes the cache.
C25_DeleteIdempotent ==
    /\ []DelIdempotent
    /\ [][\A p \in Callers :
            (cpc[p] = "del" /\ cpc'[p] = "idle" /\ ~cache[LoginKey(user[p])].present) =>
                cache' = cache]_vars

\* delete_login_attempts has returned Ok twice in a row, the second time on the
\* key the first had removed.
C25_Witness ==
    \E u \in Users :
        /\ hist[u].loginDel = "deleted_again"
        /\ returned.method = "delete_login_attempts" /\ returned.value = Ok(0)
        /\ ~cache[LoginKey(u)].present

\* -------------------------------------------------------------------- C26

PrefixIdInjective ==
    \A c1, c2 \in CacheIds : \A i1, i2 \in Identities :
        prefix_id(c1, i1) = prefix_id(c2, i2) => (c1 = c2 /\ i1 = i2)

\* C27: the mapping from (category, identity) to the key string is injective,
\* identities that hold the ':' separator included, so what was last set on one
\* pair is what the server holds under its key string, whatever was set on the
\* other pairs.
C27_KeyInjective ==
    /\ PrefixIdInjective
    /\ \A p \in StorePairs :
          (lastSet[p].set /\ (lastSet[p].ttl => clock < lastSet[p].deadline)) =>
              /\ kv[prefix_id(p[1], p[2])].present
              /\ kv[prefix_id(p[1], p[2])].text = to_string(lastSet[p].val)

\* (Session, "otp:u1") and (OTPToken, "u1") hold different values at once.
C27_Witness ==
    LET a == <<"Session", "otp:u1">>
        b == <<"OTPToken", "u1">>
    IN /\ lastSet[a].set /\ lastSet[b].set /\ lastSet[a].val # lastSet[b].val
       /\ kv[prefix_id(a[1], a[2])].present /\ kv[prefix_id(b[1], b[2])].present
       /\ kv[prefix_id(a[1], a[2])].text # kv[prefix_id(b[1], b[2])].text

\* -------------------------------------------------------------------- C28

SingleEntity == {"get_valid_by_id", "refresh", "expire"}

TerminalStates == {"committed", "commit_failed", "aborted", "abort_failed"}

\* C29: once a scope whose commit of some handle failed has returned, every
\* handle it opened is in a terminal state, consumed by exactly one commit or
\* abort call: those committed before the failure stay committed, and those the
\* commit sequence had not reached were aborted.
C29_MidCommitFailureLeavesNoHandle ==
    \A s \in Scopes : (Done(s) /\ Failed(s, "commit") # {}) =>
        \A b \in Opened(s) :
            /\ handle[s][b] \in TerminalStates
            /\ Terminals(s, b) = 1
            /\ Count(commitOrder[s], b) = 0 => handle[s][b] \in {"aborted", "abort_failed"}
            /\ handle[s][b] = "committed" => Count(abortOrder[s], b) = 0

\* A scope over all backends returned after the commit of its first handle
\* failed: the last handle, which the commit sequence never reached, was aborted.
C29_Witness ==
    \E s \in Scopes :
        /\ Done(s) /\ Len(decl[s]) = NumBackends /\ NumBackends >= 2
        /\ handle[s][decl[s][1]] = "commit_failed"
        /\ handle[s][decl[s][NumBackends]] = "aborted"
        /\ Count(commitOrder[s], decl[s][NumBackends]) = 0

\* -------------------------------------------------------------------- C30

\* C30 (as stated): a cache_login_attempt whose increment the cache carried out
\* returns Ok with the count it stored, one more than the count before, at every
\* count, those above u8::MAX included.
C30_AsStated ==
    [][\A p \in Callers :
          (/\ cpc[p] = "incr" /\ cpc'[p] # "incr"
           /\ cache'[LoginKey(user[p])] # cache[LoginKey(user[p])]) =>
            /\ cache'[LoginKey(user[p])].val = CountOf(cache, LoginKey(user[p])) + 1
            /\ cpc'[p] = "idle"
            /\ returned'.value = Ok(cache'[LoginKey(user[p])].val)]_vars

\* What does hold: up to u8::MAX the call returns the count it stored.
ReturnsCountUpToU8Max ==
    [][\A p \in Callers :
          (/\ cpc[p] = "incr" /\ cpc'[p] # "incr"
           /\ cache'[LoginKey(user[p])] # cache[LoginKey(user[p])]
           /\ cache'[LoginKey(user[p])].val <= U8Max) =>
            /\ cache'[LoginKey(user[p])].val = CountOf(cache, LoginKey(user[p])) + 1
            /\ cpc'[p] = "idle"
            /\ returned'.value = Ok(cache'[LoginKey(user[p])].val)]_vars

\* The attempt that brought the count above u8::MAX took the Err arm and stored 1.
OverflowResetsCount ==
    \E u \in Users :
        /\ hist[u].loginOk > U8Max
        /\ cache[LoginKey(u)] = Entry(1, TRUE, now + WRONG_PASSWORD_CACHE_DURATION)

\* -------------------------------------------------------------------- C31

SessionRooted == {b \in Backends : Kind(b) = "session"}

\* C31: for a session-rooted backend, while the session of a scope is alive
\* (started, neither committed nor aborted yet) the connection it was obtained
\* from is out of the pool and no other scope holds it; the connection goes back
\* to the pool only in the step in which the session's commit or abort returns.
C31_ConnectionHeldWhileSessionLives ==
    /\ [](\A b \in SessionRooted : \A s \in Scopes :
            handle[s][b] = "open" =>
                /\ via[s][b].conn \in lent[b]
                /\ \A t \in Scopes \ {s} :
                      handle[t][b] \in {"conn", "open"} =>
                          via[t][b].conn # via[s][b].conn)
    /\ [][\A b \in SessionRooted : \A s \in Scopes :
            (handle[s][b] = "open" /\ via[s][b].conn \notin lent'[b]) =>
                /\ handle'[s][b] \in TerminalStates
                /\ Count(commitOrder'[s], b) + Count(abortOrder'[s], b) = 1]_vars

\* The body of one scope ran on its session, the session was committed, and only
\* then was its connection handed to the other scope, whose session lives on it.
C31_Witness ==
    \E s, t \in Scopes : \E b \in SessionRooted :
        /\ s # t /\ b \in written[s] /\ handle[s][b] = "committed"
        /\ handle[t][b] = "open" /\ via[t][b].conn = via[s][b].conn
        /\ lent[b] = {via[t][b].conn}

\* -------------------------------------------------------------------- C32

ConnectionRooted == {b \in Backends : Kind(b) = "connection"}

GetValid(t, i) == first_row(Matching(t, "get_valid_by_id", i, TRUE))

\* C33: a purge(user_id, skip) whose query ran leaves every session of the user
\* other than the skipped one not valid, so that get_valid_by_id returns
\* DoesNotExist for each that was unexpired, and leaves the skipped session and
\* the sessions of other users as they were, the valid ones valid; a
\* get_valid_by_id that follows the purge returns accordingly.
C33_PurgeExpiresAllButSkipped ==
    /\ [][(purged'.query = "ok" /\ (purged' # purged \/ sessions' # sessions)) =>
            \A i \in SessionIds :
                IF user_id(i) = purged'.user_id /\ i # purged'.skip
                THEN /\ ~gt(sessions'[i])
                     /\ gt(sessions[i]) =>
                           /\ GetValid(sessions, i) = AdapterOk(i)
                           /\ GetValid(sessions', i) = DoesNotExist
                           /\ i \in purged'.result.rows
                ELSE /\ sessions'[i] = sessions[i]
                     /\ GetValid(sessions', i) = GetValid(sessions, i)
                     /\ i \notin purged'.result.rows]_vars
    /\ []((/\ purged.query = "ok"
           /\ repoOut.method = "get_valid_by_id" /\ repoOut.query = "ok") =>
            /\ (user_id(repoOut.id) = purged.user_id /\ repoOut.id # purged.skip) =>
                  repoOut.result = DoesNotExist
            /\ (repoOut.csrf_ok /\ sessions[repoOut.id] = "valid") =>
                  repoOut.result = AdapterOk(repoOut.id))

\* purge("u1", Some("s2")) expired s1 alone; after it get_valid_by_id of s1 with
\* the right csrf returned DoesNotExist, and s2 and the other user's s3 are valid.
C33_Witness ==
    /\ purged.query = "ok" /\ purged.user_id = "u1" /\ purged.skip = "s2"
    /\ purged.result = ManyOk({"s1"})
    /\ repoOut.method = "get_valid_by_id" /\ repoOut.id = "s1"
    /\ repoOut.csrf_ok /\ repoOut.query = "ok" /\ repoOut.result = DoesNotExist
    /\ sessions["s2"] = "valid" /\ sessions["s3"] = "valid"

\* -------------------------------------------------------------------- C34

OAuthGetters == {"get_by_id", "get_by_account_id", "get_by_provider"}

\* The entry a getter was asked for.
Asked(m, arg) ==
    CHOOSE i \in OAuthIds :
        \/ m = "get_by_id" /\ i = arg
        \/ m = "get_by_account_id" /\ account_id(i) = arg
        \/ m = "get_by_provider" /\ provider(i) = arg

\* C34 (as stated): a getter whose query ran returns the entry it was asked for
\* when the entry was created, is not revoked and has not passed its expiry, an
\* entry stored with no expiry included.
C34_AsStated ==
    [][(oauthOut' # oauthOut /\ oauthOut'.method \in OAuthGetters
        /\ oauthOut'.query = "ok") =>
          LET i == Asked(oauthOut'.method, oauthOut'.arg)
          IN (/\ oauth[i].present /\ ~oauth[i].revoked
              /\ oauth[i].expires_at \in {Null, "valid"}) =>
                  oauthOut'.result = AdapterOk(i)]_vars

\* What does hold: the entry is returned when it has an expiry that lies ahead.
TimedEntryReturned ==
    [][(oauthOut' # oauthOut /\ oauthOut'.method \in OAuthGetters
        /\ oauthOut'.query = "ok") =>
          LET i == Asked(oauthOut'.method, oauthOut'.arg)
          IN (/\ oauth[i].present /\ ~oauth[i].revoked
              /\ oauth[i].expires_at = "valid") =>
                  oauthOut'.result = AdapterOk(i)]_vars

\* No getter ever returns an entry that is stored with no expiry.
NoExpiryNeverReturned ==
    (oauthOut.method \in OAuthGetters /\ oauthOut.result.tag = "ok") =>
        oauth[oauthOut.result.row].expires_at # Null

\* An entry created with no expires_in, not revoked, was asked for by id and the
\* call returned DoesNotExist.
NoExpiryNotFound ==
    /\ oauthOut.method = "get_by_id" /\ oauthOut.query = "ok"
    /\ oauth[oauthOut.arg] = OAuthMeta(FALSE, Null)
    /\ oauthOut.result = DoesNotExist

====
